---- MODULE Spec2Model ----
(***************************************************************************)
(* A model of profiteer.py: the module-level sampling state, the five      *)
(* public operations init / reset / sample / advance / report and the two  *)
(* binning functions _logbin_time and _logbin_population.                  *)
(*                                                                         *)
(* Python lists and bytearrays are 0-based; the sequences below are        *)
(* 1-based, so samples[set][iteration] of the source is                    *)
(* samples[set + 1][iteration + 1] here.  A raised Python exception ends   *)
(* the call at the statement that raised it: the assignments before that   *)
(* statement are kept, those after it are not made.                        *)
(***************************************************************************)
EXTENDS Integers, Sequences, FiniteSets, TLC

\* ---------------------------------------------------------------- bounds

\* init() is called with sets * iterations <= MaxCells (when both are positive)
MaxCells == 3

\* the readings the time source may return, in microseconds
Times == {0, 1, 2097152}

\* the arguments init() is called with; the non-positive ones are accepted
\* by the source as well
InitArgs == {0 - 1} \cup (0..MaxCells)

\* a caller that follows the sampling protocol calls init() with
\* sets * iterations <= MaxSweepCells and runs at most MaxSweeps sweeps
MaxSweepCells == 4

MaxSweeps == 4

\* the readings of the time source under a caller that follows the protocol
SweepTimes == {0, 1, 2000}

\* the binning functions are applied to 0..MaxDelta and to the deltas around
\* each power of two up to 2^22, and with ITERATIONS up to MaxPopulation
MaxDelta == 40

MaxPopulation == 16

Deltas == (0..MaxDelta) \cup UNION {{2^k - 1, 2^k, 2^k + 1} : k \in 0..22}

\* the end-to-end scenario: at most MaxPairs reset(); sample() pairs, with
\* these elapsed times and these readings at reset()
MaxPairs == 4

E2EDeltas == {0, 1, 1023, 1024}

E2ETimes == {0, 5}

\* the steady scenario: init(2, n) with n <= MaxSteady, then n sweeps with
\* these elapsed times and these readings at reset() and after a write
MaxSteady == 3

SteadyDeltas == {0, 1, 2000}

SteadyTimes == {0, 7}

VARIABLES
    SETS,        \* profiteer.SETS
    ITERATIONS,  \* profiteer.ITERATIONS
    samples,     \* profiteer.samples : list(bytearray)
    set,         \* profiteer.set
    iteration,   \* profiteer.iteration
    last,        \* profiteer.last
    called,      \* history: the most recent call, its inputs and the exception it raised
    inits,       \* history: the number of init() calls so far, saturating at 2
    printed,     \* history: what the most recent report() printed, while no
                 \* init/sample/advance call has been made since; Nothing otherwise
    result,      \* the most recent direct application of a binning function
    pc,          \* the caller's position in its calling pattern
    taken,       \* caller: the sample() calls made in the current sweep
    sweeps,      \* caller: the sweeps completed since init()
    starts,      \* history: the value of iteration at the start of each sweep
    ops,         \* history: the reset/sample/advance calls made since init()
    elapsed,     \* history: the elapsed time seen by each sample() since init()
    reads,       \* history: the clock readings the most recent call took, in order
    monotone     \* sweep caller: no clock reading so far was below the one before it

prog == <<SETS, ITERATIONS, samples, set, iteration, last>>
caller == <<pc, taken, sweeps, starts, ops, elapsed, monotone>>
vars == <<SETS, ITERATIONS, samples, set, iteration, last, called, inits, printed,
          result, pc, taken, sweeps, starts, ops, elapsed, reads, monotone>>

Nothing == <<"nothing">>

\* -------------------------------------------------------- Python helpers

Abs(x) == IF x < 0 THEN 0 - x ELSE x

Min(a, b) == IF a <= b THEN a ELSE b

\* Python's a % b for b # 0: the result has the sign of the divisor
PyMod(a, b) ==
    IF b > 0 THEN a % b
    ELSE LET r == (0 - a) % (0 - b) IN 0 - r

\* Python's sequence indexing: i in [-len, len) is valid, negative i counts
\* from the end; the 1-based position of a valid i
ValidIndex(i, len) == (0 - len) <= i /\ i < len

Position(i, len) == IF i >= 0 THEN i + 1 ELSE len + i + 1

\* n * [v] and range(n): empty when n <= 0
Repeat(n, v) == IF n <= 0 THEN <<>> ELSE [i \in 1..n |-> v]

\* int.bit_length: the number of bits of the absolute value, 0 for 0
RECURSIVE bit_length(_)
bit_length(x) ==
    IF x = 0 THEN 0
    ELSE 1 + bit_length(Abs(x) \div 2)

\* a plausible slip: the quotient is truncated instead of rounded up
CeilDiv_floor(a, b) == IF a >= 0 /\ b > 0 THEN a \div b ELSE 0

\* math.ceil(a / b) for integers a, b with b # 0.  The float quotient of the
\* source is exact enough for ceil as long as b < 2^49, far above any bound here.
CeilDiv(a, b) ==
    LET p == IF b < 0 THEN 0 - a ELSE a
        q == Abs(b)
    IN  IF p >= 0 THEN (p + q - 1) \div q
        ELSE 0 - ((0 - p) \div q)

\* a plausible slip: the stray sentinel is counted with every bucket
Count_sentinel(row, value) ==
    Cardinality({i \in 1..Len(row) : row[i] = value \/ row[i] = 255})

\* bytearray.count(value)
Count(row, value) == Cardinality({i \in 1..Len(row) : row[i] = value})

\* ------------------------------------------------------ binning functions

\* a plausible slip: the overflow bucket is not capped
logbin_time_uncapped(x) == bit_length(x)

\* a plausible slip: floor(log2(x)) instead of the bit length
logbin_time_log2(x) == IF x = 0 THEN 0 ELSE Min(21, bit_length(x) - 1)

logbin_time(x) == Min(21, bit_length(x))

\* reads the global ITERATIONS; raises ZeroDivisionError when it is 0
logbin_population(x) == bit_length(CeilDiv(15 * x, ITERATIONS))

\* ------------------------------------------------------------ the state

Call(op, args, raised) == [op |-> op, args |-> args, raised |-> raised]

Bump(n) == Min(2, n + 1)

\* the module's globals as the import leaves them
Init ==
    /\ SETS = 0
    /\ ITERATIONS = 0
    /\ samples = <<>>
    /\ set = 0
    /\ iteration = 0
    /\ last = 0
    /\ called = Call("import", <<>>, "none")
    /\ inits = 0
    /\ printed = Nothing
    /\ result = [fn |-> "none", arg |-> 0, value |-> 0]
    /\ pc = "init"
    /\ taken = 0
    /\ sweeps = 0
    /\ starts = <<>>
    /\ ops = <<>>
    /\ elapsed = <<>>
    /\ reads = <<>>
    /\ monotone = TRUE

\* ------------------------------------------------------------ operations

\* a plausible slip: the cursor is left where the earlier sampling put it
init_stale(sets, iterations) ==
    /\ SETS' = sets
    /\ ITERATIONS' = iterations
    /\ samples' = Repeat(sets, Repeat(iterations, 255))
    /\ UNCHANGED <<set, iteration, last>>
    /\ called' = Call("init", <<sets, iterations>>, "none")
    /\ inits' = Bump(inits)
    /\ printed' = Nothing
    /\ reads' = <<>>

init(sets, iterations) ==
    /\ SETS' = sets
    /\ ITERATIONS' = iterations
    /\ samples' = Repeat(sets, Repeat(iterations, 255))
    /\ set' = 0
    /\ iteration' = 0
    /\ UNCHANGED last
    /\ called' = Call("init", <<sets, iterations>>, "none")
    /\ inits' = Bump(inits)
    /\ printed' = Nothing
    /\ reads' = <<>>

\* a plausible slip: reset() also rewinds the set cursor
reset_rewinds(now) ==
    /\ last' = now
    /\ set' = 0
    /\ UNCHANGED <<SETS, ITERATIONS, samples, iteration>>
    /\ called' = Call("reset", <<now>>, "none")
    /\ reads' = <<now>>
    /\ UNCHANGED <<inits, printed>>

reset(now) ==
    /\ last' = now
    /\ UNCHANGED <<SETS, ITERATIONS, samples, set, iteration>>
    /\ called' = Call("reset", <<now>>, "none")
    /\ reads' = <<now>>
    /\ UNCHANGED <<inits, printed>>

\* a plausible slip: the set cursor is never moved
NextSet_stuck == set

\* a plausible slip: the set cursor is not taken modulo SETS
NextSet_nowrap == 1 + set

\* line 81
NextSet == PyMod(1 + set, SETS)

\* a plausible slip: the iteration cursor is never moved
NextIteration_stuck == iteration

\* a plausible slip: the iteration cursor stops at the last column
NextIteration_saturating == Min(1 + iteration, ITERATIONS - 1)

\* a plausible slip: the iteration cursor is not taken modulo ITERATIONS
NextIteration_nowrap == 1 + iteration

\* line 100
NextIteration == PyMod(1 + iteration, ITERATIONS)

\* a plausible slip: the reading taken for the delta is kept as the reference
Stamp_reused(now, now2) == now

\* line 82: the reference timestamp is the second reading
Stamp(now, now2) == now2

\* a plausible slip: the reference timestamp is stored before the cell is written
sample_stamps_first(now, now2) ==
    LET value == logbin_time(now - last)
        rowOk == ValidIndex(set, Len(samples))
        r     == Position(set, Len(samples))
        colOk == rowOk /\ ValidIndex(iteration, Len(samples[r]))
        c     == Position(iteration, Len(samples[r]))
    IN  /\ UNCHANGED <<SETS, ITERATIONS, iteration, inits>>
        /\ printed' = Nothing
        /\ last' = now2
        /\ reads' = <<now, now2>>
        /\ IF ~colOk
           THEN /\ UNCHANGED <<samples, set>>
                /\ called' = Call("sample", <<now>>, "IndexError")
           ELSE /\ samples' = [samples EXCEPT ![r][c] = value]
                /\ set' = PyMod(1 + set, SETS)
                /\ called' = Call("sample", <<now>>, "none")

\* a plausible slip: advance() leaves the set cursor where it is
advance_keeps_set ==
    /\ UNCHANGED <<SETS, ITERATIONS, samples, last, inits, set>>
    /\ printed' = Nothing
    /\ reads' = <<>>
    /\ IF ITERATIONS = 0
       THEN /\ UNCHANGED iteration
            /\ called' = Call("advance", <<>>, "ZeroDivisionError")
       ELSE /\ iteration' = PyMod(1 + iteration, ITERATIONS)
            /\ called' = Call("advance", <<>>, "none")

\* now is the reading of line 79, now2 the reading of line 82
sample(now, now2) ==
    LET value == logbin_time(now - last)
        rowOk == ValidIndex(set, Len(samples))
        r     == Position(set, Len(samples))
        colOk == rowOk /\ ValidIndex(iteration, Len(samples[r]))
        c     == Position(iteration, Len(samples[r]))
    IN  /\ UNCHANGED <<SETS, ITERATIONS, iteration, inits>>
        /\ printed' = Nothing
        /\ IF ~colOk
           THEN /\ UNCHANGED <<samples, set, last>>
                /\ called' = Call("sample", <<now>>, "IndexError")
                /\ reads' = <<now>>
           ELSE /\ samples' = [samples EXCEPT ![r][c] = value]
                /\ IF SETS = 0
                   THEN /\ UNCHANGED <<set, last>>
                        /\ called' = Call("sample", <<now>>, "ZeroDivisionError")
                        /\ reads' = <<now>>
                   ELSE /\ set' = NextSet
                        /\ last' = Stamp(now, now2)
                        /\ called' = Call("sample", <<now>>, "none")
                        /\ reads' = <<now, now2>>

\* a plausible slip: advance() also restarts the sample timer, as reset() does
advance_resets ==
    /\ UNCHANGED <<SETS, ITERATIONS, samples, inits>>
    /\ printed' = Nothing
    /\ reads' = <<>>
    /\ IF ITERATIONS = 0
       THEN /\ UNCHANGED <<set, iteration, last>>
            /\ called' = Call("advance", <<>>, "ZeroDivisionError")
       ELSE /\ iteration' = NextIteration
            /\ set' = 0
            /\ \E now \in Times : last' = now
            /\ called' = Call("advance", <<>>, "none")

advance ==
    /\ UNCHANGED <<SETS, ITERATIONS, samples, last, inits>>
    /\ printed' = Nothing
    /\ reads' = <<>>
    /\ IF ITERATIONS = 0
       THEN /\ UNCHANGED <<set, iteration>>
            /\ called' = Call("advance", <<>>, "ZeroDivisionError")
       ELSE /\ iteration' = NextIteration
            /\ set' = 0
            /\ called' = Call("advance", <<>>, "none")

\* ---------------------------------------------------------------- report

\* line 107-110: the intensity of each of the 22 buckets of one row
Buckets(row) == [b \in 1..22 |-> logbin_population(Count(row, b - 1))]

\* line 117: f(glyphs, buckets), a string as the sequence of its characters
Glyphs(glyphs, pile) == [i \in 1..Len(pile) |-> glyphs[pile[i] + 1]]

\* lines 111-116 and the " ".join of lines 118-120
Line(prefix, glyphs, buckets) ==
    <<prefix>>
        \o Glyphs(glyphs, SubSeq(buckets, 1, 1)) \o <<" ">>
        \o Glyphs(glyphs, SubSeq(buckets, 2, 11)) \o <<" ">>
        \o Glyphs(glyphs, SubSeq(buckets, 12, 21)) \o <<" ">>
        \o Glyphs(glyphs, SubSeq(buckets, 22, 22))

Sparse == <<" ", " ", " ", ".", ":">>
Dense  == <<" ", ".", ":", ":", ":">>
Rule   == <<"-", "-", "-", "-", "-">>

\* line 122
Axis ==
    <<" ", " ", " ", " ", " ", " ", " ", "u", "s", " ", " ", " ", " ",
      " ", " ", " ", " ", " ", "m", "s", " ", " ", " ", " ", " ", " ">>

RowLines(row) ==
    LET buckets == Buckets(row)
    IN  << Line("|", Sparse, buckets),
           Line("|", Dense, buckets),
           Line("+", Rule, buckets) >>

RECURSIVE AllRowLines(_)
AllRowLines(rows) ==
    IF rows = <<>> THEN <<>>
    ELSE RowLines(Head(rows)) \o AllRowLines(Tail(rows))

\* a plausible slip: the report rewinds the cursors once it has printed
report_rewinding ==
    /\ UNCHANGED <<SETS, ITERATIONS, samples, last, inits>>
    /\ set' = 0
    /\ iteration' = 0
    /\ reads' = <<>>
    /\ IF samples # <<>> /\ ITERATIONS = 0
       THEN /\ printed' = <<>>
            /\ called' = Call("report", <<>>, "ZeroDivisionError")
       ELSE /\ printed' = AllRowLines(samples) \o <<Axis>>
            /\ called' = Call("report", <<>>, "none")

report ==
    /\ UNCHANGED <<SETS, ITERATIONS, samples, set, iteration, last, inits>>
    /\ reads' = <<>>
    /\ IF samples # <<>> /\ ITERATIONS = 0
       THEN /\ printed' = <<>>
            /\ called' = Call("report", <<>>, "ZeroDivisionError")
       ELSE /\ printed' = AllRowLines(samples) \o <<Axis>>
            /\ called' = Call("report", <<>>, "none")

\* ------------------------------------------------------- specifications

\* any caller: the operations in any order, with any clock readings
Next ==
    \/ \E sets \in InitArgs, iterations \in InitArgs :
          /\ (sets > 0 /\ iterations > 0) => sets * iterations <= MaxCells
          /\ init(sets, iterations)
          /\ UNCHANGED <<result, caller>>
    \/ \E now \in Times : reset(now) /\ UNCHANGED <<result, caller>>
    \/ \E now \in Times, now2 \in Times :
          sample(now, now2) /\ UNCHANGED <<result, caller>>
    \/ advance /\ UNCHANGED <<result, caller>>
    \/ report /\ UNCHANGED <<result, caller>>

Spec == Init /\ [][Next]_vars

\* the binning functions applied directly, after an init(1, n)
PureInit ==
    /\ pc = "init"
    /\ \E n \in 1..MaxPopulation : init(1, n)
    /\ pc' = "apply"
    /\ UNCHANGED <<result, taken, sweeps, starts, ops, elapsed, monotone>>

ApplyLogbinTime ==
    /\ pc = "apply"
    /\ \E x \in Deltas :
          result' = [fn |-> "logbin_time", arg |-> x, value |-> logbin_time(x)]
    /\ UNCHANGED <<prog, called, inits, printed, reads, caller>>

ApplyLogbinPopulation ==
    /\ pc = "apply"
    /\ \E x \in 0..ITERATIONS :
          result' = [fn |-> "logbin_population", arg |-> x,
                     value |-> logbin_population(x)]
    /\ UNCHANGED <<prog, called, inits, printed, reads, caller>>

NextPure == PureInit \/ ApplyLogbinTime \/ ApplyLogbinPopulation

SpecPure == Init /\ [][NextPure]_vars

\* the caller of the module docstring (lines 9-20) and of advance's docstring
\* (lines 92-97): init(S, N), then sweeps of reset(), S sample() calls and
\* advance(); report() between sweeps
SweepInit ==
    /\ pc = "init"
    /\ \E sets \in 1..MaxSweepCells, iterations \in 1..MaxSweepCells :
          /\ sets * iterations <= MaxSweepCells
          /\ init(sets, iterations)
    /\ pc' = "reset"
    /\ taken' = 0
    /\ sweeps' = 0
    /\ starts' = <<0>>
    /\ UNCHANGED <<result, ops, elapsed, monotone>>

SweepReset ==
    /\ pc = "reset"
    /\ sweeps < MaxSweeps
    /\ \E now \in SweepTimes :
          /\ reset(now)
          /\ monotone' = (monotone /\ now >= last)
    /\ pc' = "sample"
    /\ taken' = 0
    /\ UNCHANGED <<result, sweeps, starts, ops, elapsed>>

SweepSample ==
    /\ pc = "sample"
    /\ taken < SETS
    /\ \E now \in SweepTimes, now2 \in SweepTimes :
          /\ sample(now, now2)
          /\ monotone' = (monotone /\ now >= last /\ now2 >= now)
    /\ taken' = taken + 1
    /\ UNCHANGED <<result, pc, sweeps, starts, ops, elapsed>>

SweepAdvance ==
    /\ pc = "sample"
    /\ taken = SETS
    /\ advance
    /\ pc' = "reset"
    /\ sweeps' = sweeps + 1
    /\ starts' = Append(starts, iteration')
    /\ UNCHANGED <<result, taken, ops, elapsed, monotone>>

SweepReport ==
    /\ pc = "reset"
    /\ report
    /\ UNCHANGED <<result, caller>>

NextSweep == SweepInit \/ SweepReset \/ SweepSample \/ SweepAdvance \/ SweepReport

SpecSweep == Init /\ [][NextSweep]_vars

\* the caller of the end-to-end scenario: init(1, 4), then reset(); sample()
\* pairs, each followed by advance() or not
E2EInit ==
    /\ pc = "init"
    /\ init(1, 4)
    /\ pc' = "reset"
    /\ UNCHANGED <<result, taken, sweeps, starts, ops, elapsed, monotone>>

E2EReset ==
    /\ pc \in {"reset", "after"}
    /\ Len(elapsed) < MaxPairs
    /\ \E now \in E2ETimes : reset(now)
    /\ pc' = "sample"
    /\ ops' = Append(ops, "reset")
    /\ UNCHANGED <<result, taken, sweeps, starts, elapsed, monotone>>

E2ESample ==
    /\ pc = "sample"
    /\ \E d \in E2EDeltas, now2 \in E2ETimes :
          /\ sample(last + d, now2)
          /\ elapsed' = Append(elapsed, d)
    /\ pc' = "after"
    /\ ops' = Append(ops, "sample")
    /\ UNCHANGED <<result, taken, sweeps, starts, monotone>>

E2EAdvance ==
    /\ pc = "after"
    /\ advance
    /\ pc' = "reset"
    /\ ops' = Append(ops, "advance")
    /\ UNCHANGED <<result, taken, sweeps, starts, elapsed, monotone>>

E2EReport ==
    /\ pc \in {"reset", "after"}
    /\ report
    /\ UNCHANGED <<result, caller>>

NextE2E == E2EInit \/ E2EReset \/ E2ESample \/ E2EAdvance \/ E2EReport

SpecE2E == Init /\ [][NextE2E]_vars

\* the caller of the steady scenario: init(2, n), then n sweeps of reset(),
\* two sample() calls and advance(), the clock giving each sample() its
\* elapsed time; report() between sweeps
SteadyInit ==
    /\ pc = "init"
    /\ \E n \in 1..MaxSteady : init(2, n)
    /\ pc' = "reset"
    /\ UNCHANGED <<result, taken, sweeps, starts, ops, elapsed, monotone>>

SteadyReset ==
    /\ pc = "reset"
    /\ sweeps < ITERATIONS
    /\ \E now \in SteadyTimes : reset(now)
    /\ pc' = "sample"
    /\ taken' = 0
    /\ UNCHANGED <<result, sweeps, starts, ops, elapsed, monotone>>

SteadySample ==
    /\ pc = "sample"
    /\ taken < SETS
    /\ \E d \in SteadyDeltas, now2 \in SteadyTimes :
          /\ sample(last + d, now2)
          /\ elapsed' = Append(elapsed, d)
    /\ taken' = taken + 1
    /\ UNCHANGED <<result, pc, sweeps, starts, ops, monotone>>

SteadyAdvance ==
    /\ pc = "sample"
    /\ taken = SETS
    /\ advance
    /\ pc' = "reset"
    /\ sweeps' = sweeps + 1
    /\ UNCHANGED <<result, taken, starts, ops, elapsed, monotone>>

SteadyReport ==
    /\ pc = "reset"
    /\ report
    /\ UNCHANGED <<result, caller>>

NextSteady ==
    SteadyInit \/ SteadyReset \/ SteadySample \/ SteadyAdvance \/ SteadyReport

SpecSteady == Init /\ [][NextSteady]_vars

\* ---------------------------------------------------------------- claims

\* the specification's bit_length: 0 for 0, floor(log2(n)) + 1 for n > 0,
\* i.e. the k with 2^(k-1) <= n < 2^k
SpecBitLength(n) ==
    IF n = 0 THEN 0
    ELSE CHOOSE k \in 1..30 : 2^(k - 1) <= n /\ n < 2^k

\* the specification's bucket_of
bucket_of(d) == IF SpecBitLength(d) > 21 THEN 21 ELSE SpecBitLength(d)

\* the specification's ceil(15 * count / n): the least m with m * n >= 15 * count
SpecCeil15(count, n) == CHOOSE m \in 0..15 :
    /\ m * n >= 15 * count
    /\ \A l \in 0..15 : l * n >= 15 * count => m <= l

ValidInit == called.op = "init" /\ called.args[1] >= 1 /\ called.args[2] >= 1

\* C1: after init(S, N) with S >= 1 and N >= 1, from any earlier state, the
\* store has exactly S rows of exactly N cells, every cell is 255, and both
\* cursors are 0.
C1_InitClearsStore ==
    ValidInit =>
        /\ Len(samples) = called.args[1]
        /\ \A r \in 1..Len(samples) :
              /\ Len(samples[r]) = called.args[2]
              /\ \A c \in 1..Len(samples[r]) : samples[r][c] = 255
        /\ set = 0
        /\ iteration = 0

\* an init(3, 1) that is not the first init: the state before it was set up,
\* and possibly sampled into, by an earlier one
C1_Witness ==
    /\ called = Call("init", <<3, 1>>, "none")
    /\ inits = 2
    /\ last = 2097152

\* C2: init(slot_count, iteration_count) with a non-positive argument fails
\* with InvalidConfig and installs no store and no configuration.
C2_InvalidConfigRejected ==
    [][ (called'.op = "init" /\ (called'.args[1] <= 0 \/ called'.args[2] <= 0))
            => (called'.raised = "InvalidConfig" /\ UNCHANGED prog) ]_vars

\* C3: after a valid init, a sample() whose reading now is >= last writes
\* bucket_of(now - last) into the cell at the cursors as they were before the
\* call and then moves set to (set + 1) mod SETS.
C3_SampleWritesBucket ==
    [][ (called'.op = "sample" /\ SETS >= 1 /\ ITERATIONS >= 1
            /\ called'.args[1] >= last)
            => /\ called'.raised = "none"
               /\ samples'[set + 1][iteration + 1] = bucket_of(called'.args[1] - last)
               /\ set' = (set + 1) % SETS ]_vars

\* a sample() that read the largest clock value, wrote the overflow bucket into
\* the second row and wrapped the set cursor
C3_Witness ==
    /\ called = Call("sample", <<2097152>>, "none")
    /\ SETS = 2
    /\ set = 0
    /\ samples[2][iteration + 1] = 21

\* C4: a sample() whose reading is smaller than last does not fail and writes
\* bucket 0, the delta being clamped to 0.
C4_NegativeDeltaClamped ==
    [][ (called'.op = "sample" /\ SETS >= 1 /\ ITERATIONS >= 1
            /\ called'.args[1] < last)
            => /\ called'.raised = "none"
               /\ samples'[set + 1][iteration + 1] = 0 ]_vars

\* C5: for every d >= 0 the bucket is min(21, bit_length(d)), within 0..21,
\* with the values the specification lists at 0, 1023, 1024, 2^20 - 1, 2^20.
C5_BucketOf ==
    (result.fn = "logbin_time" /\ result.arg >= 0) =>
        /\ result.value = bucket_of(result.arg)
        /\ result.value \in 0..21
        /\ result.arg = 0 => result.value = 0
        /\ result.arg = 1023 => result.value = 10
        /\ result.arg = 1024 => result.value = 11
        /\ result.arg = 1048575 => result.value = 20
        /\ result.arg = 1048576 => result.value = 21

C5_Witness ==
    result = [fn |-> "logbin_time", arg |-> 1048576, value |-> 21]

\* C6: for N >= 1 and count in 0..N, scale(count, N) is
\* bit_length(ceil(15 * count / N)), within 0..4, 0 at count 0 and 4 at count N.
C6_Scale ==
    (result.fn = "logbin_population" /\ ITERATIONS >= 1
        /\ result.arg \in 0..ITERATIONS) =>
        /\ result.value = SpecBitLength(SpecCeil15(result.arg, ITERATIONS))
        /\ result.value \in 0..4
        /\ result.arg = 0 => result.value = 0
        /\ result.arg = ITERATIONS => result.value = 4

\* scale(1, 4) = bit_length(ceil(3.75)) = 3
C6_Witness ==
    /\ result = [fn |-> "logbin_population", arg |-> 1, value |-> 3]
    /\ ITERATIONS = 4

\* C7: under the sweep protocol, the advance() that ends a sweep of exactly
\* SETS samples leaves set = 0, and the iteration cursor after ITERATIONS such
\* sweeps is the one before the first of them.
C7_SweepWraps ==
    /\ (pc = "reset" /\ called.op = "advance") =>
          /\ called.raised = "none"
          /\ set = 0
          /\ iteration = starts[Len(starts)]
    /\ \A j \in 1..Len(starts) :
          j + ITERATIONS <= Len(starts) => starts[j + ITERATIONS] = starts[j]

\* two sets, two iterations: the second sweep has just been advanced
C7_Witness ==
    /\ pc = "reset"
    /\ called.op = "advance"
    /\ SETS = 2
    /\ ITERATIONS = 2
    /\ sweeps = 2
    /\ starts = <<0, 1, 0>>

\* C8: after a valid init, advance() sets iteration to (iteration + 1) mod N
\* and set to 0, whatever the set cursor was, and leaves last, the
\* configuration and every cell unchanged.
C8_AdvanceFrame ==
    [][ (called'.op = "advance" /\ SETS >= 1 /\ ITERATIONS >= 1)
            => /\ called'.raised = "none"
               /\ iteration' = (iteration + 1) % ITERATIONS
               /\ set' = 0
               /\ UNCHANGED <<last, SETS, ITERATIONS, samples>> ]_vars

\* an advance() that wrapped the iteration cursor of a three-iteration store
\* holding a sample, the timer being set
C8_Witness ==
    /\ called = Call("advance", <<>>, "none")
    /\ SETS = 1
    /\ ITERATIONS = 3
    /\ iteration = 0
    /\ samples[1][3] = 21
    /\ last = 1

\* C9: report() changes no part of the state, and a report() that follows
\* another with no init/sample/advance call in between prints the same text.
C9_ReportReadsOnly ==
    [][ called'.op = "report"
            => /\ UNCHANGED prog
               /\ (printed # Nothing => printed' = printed) ]_vars

\* a report of a one-cell store holding the overflow bucket at full intensity,
\* printed while the cursor and the timer are away from their initial values
C9_Witness ==
    /\ called = Call("report", <<>>, "none")
    /\ SETS = 1
    /\ ITERATIONS = 1
    /\ Len(printed) = 4
    /\ printed[1][26] = ":"
    /\ last = 1

\* the end-to-end scenario's results
E2EResult ==
    /\ samples = << <<0, 1, 10, 11>> >>
    /\ \A b \in 0..21 :
          /\ Count(samples[1], b) = (IF b \in {0, 1, 10, 11} THEN 1 ELSE 0)
          /\ Buckets(samples[1])[b + 1] = (IF b \in {0, 1, 10, 11} THEN 3 ELSE 0)

E2EPairs ==
    <<"reset", "sample", "reset", "sample", "reset", "sample", "reset", "sample">>

E2ESweeps ==
    <<"reset", "sample", "advance", "reset", "sample", "advance",
      "reset", "sample", "advance", "reset", "sample", "advance">>

\* C10 as stated: init(1, 4), then reset(); sample() four times with elapsed
\* times 0, 1, 1023, 1024 leaves the row [0, 1, 10, 11], one occurrence of
\* each of the buckets 0, 1, 10, 11 and intensity 3 for each of them.
C10_AsStated ==
    (ops = E2EPairs /\ elapsed = <<0, 1, 1023, 1024>>) => E2EResult

\* C10, amended: the same with advance() after each sample().
C10_EndToEnd ==
    (ops = E2ESweeps /\ elapsed = <<0, 1, 1023, 1024>>) => E2EResult

\* the scenario has run and its report has been printed: the glyphs of
\* intensity 3 stand at buckets 0, 1, 10 and 11
C10_Witness ==
    /\ ops = E2ESweeps
    /\ elapsed = <<0, 1, 1023, 1024>>
    /\ called = Call("report", <<>>, "none")
    /\ printed[1][2] = "." /\ printed[1][4] = "." /\ printed[1][13] = "."
    /\ printed[1][15] = "."

\* the column of bucket b in a printed line: the prefix, then the groups
\* [0:1], [1:11], [11:21], [21:22] with one space between them
GlyphColumn(b) ==
    IF b = 0 THEN 2 ELSE IF b <= 10 THEN b + 3 ELSE IF b <= 20 THEN b + 4 ELSE 26

\* the intensity the two glyph rows of slot r show for bucket b
Shown(r, b) ==
    LET sparse == printed[3 * (r - 1) + 1][GlyphColumn(b)]
        dense  == printed[3 * (r - 1) + 2][GlyphColumn(b)]
    IN  CASE sparse = " " /\ dense = " " -> 0
          [] sparse = " " /\ dense = "." -> 1
          [] sparse = " " /\ dense = ":" -> 2
          [] sparse = "." /\ dense = ":" -> 3
          [] sparse = ":" /\ dense = ":" -> 4
          [] OTHER -> 0 - 1

Reported == called = Call("report", <<>>, "none") /\ SETS >= 1 /\ ITERATIONS >= 1

\* C11: report() shows, for each slot and each bucket b in 0..21, the scaled
\* number of that row's cells equal to b; cells holding 255 count for no
\* bucket, so a report of a store of untouched cells shows intensity 0 in all
\* 22 positions of every slot.
C11_ReportCounts ==
    Reported =>
        /\ Len(printed) = 3 * SETS + 1
        /\ \A r \in 1..SETS : \A b \in 0..21 :
              LET n == Cardinality({c \in 1..ITERATIONS : samples[r][c] = b})
              IN  Shown(r, b) = SpecBitLength(SpecCeil15(n, ITERATIONS))
        /\ (\A r \in 1..SETS : \A c \in 1..ITERATIONS : samples[r][c] = 255)
              => \A r \in 1..SETS : \A b \in 0..21 : Shown(r, b) = 0

\* a report of a row holding one overflow sample and two untouched cells
C11_Witness ==
    /\ Reported
    /\ samples = << <<21, 255, 255>> >>
    /\ Shown(1, 21) = 3
    /\ \A b \in 0..20 : Shown(1, b) = 0

\* a report right after init(3, 1)
C11_WitnessFresh ==
    /\ Reported
    /\ samples = << <<255>>, <<255>>, <<255>> >>
    /\ \A r \in 1..3 : \A b \in 0..21 : Shown(r, b) = 0

Alternating(seq, a, b) ==
    \A i \in 1..Len(seq) : seq[i] = (IF i % 2 = 1 THEN a ELSE b)

SteadyRun ==
    /\ pc = "reset"
    /\ sweeps = ITERATIONS
    /\ Len(elapsed) = 2 * ITERATIONS
    /\ Alternating(elapsed, 0, 2000)

\* C12: after init(2, N) and N sweeps in which slot 0 always sees delta 0 and
\* slot 1 always sees delta 2000, the intensities of slot 0 are 4 at bucket 0
\* and 0 elsewhere, those of slot 1 are 4 at bucket 11 and 0 elsewhere.
C12_SteadyScenario ==
    SteadyRun =>
        /\ \A b \in 0..21 :
              /\ Buckets(samples[1])[b + 1] = (IF b = 0 THEN 4 ELSE 0)
              /\ Buckets(samples[2])[b + 1] = (IF b = 11 THEN 4 ELSE 0)
        /\ Reported => \A b \in 0..21 :
              /\ Shown(1, b) = (IF b = 0 THEN 4 ELSE 0)
              /\ Shown(2, b) = (IF b = 11 THEN 4 ELSE 0)

\* three iterations swept and reported
C12_Witness ==
    /\ SteadyRun
    /\ ITERATIONS = 3
    /\ Reported
    /\ Shown(1, 0) = 4
    /\ Shown(2, 11) = 4

BeforeInit(op) == inits = 0 /\ called'.op = op

\* C13 as stated: sample() and advance() before any init() fail with
\* NotInitialized and leave the cursors, last and the empty store unchanged.
C13_AsStated ==
    [][ (BeforeInit("sample") \/ BeforeInit("advance"))
            => (called'.raised = "NotInitialized" /\ UNCHANGED prog) ]_vars

\* C13, amended: before any init(), sample() fails with IndexError and
\* advance() with ZeroDivisionError, and both leave the cursors, last and the
\* empty store unchanged.
C13_FailsBeforeInit ==
    [][ /\ BeforeInit("sample") =>
              (called'.raised = "IndexError" /\ UNCHANGED prog /\ samples = <<>>)
        /\ BeforeInit("advance") =>
              (called'.raised = "ZeroDivisionError" /\ UNCHANGED prog /\ samples = <<>>)
      ]_vars

\* a sample() that failed before any init(), after a reset() had set the timer
C13_Witness ==
    /\ inits = 0
    /\ called = Call("sample", <<1>>, "IndexError")
    /\ last = 2097152
    /\ samples = <<>>

\* C14: a successful sample() takes two readings; the first gives the delta
\* it writes, the second, taken after the write, becomes last, so last is >=
\* the first reading when the clock did not go back, and the delta of the
\* sample() that follows is counted from the second reading.
C14_TwoReadings ==
    [][ (called'.op = "sample" /\ called'.raised = "none")
            => /\ Len(reads') = 2
               /\ reads'[1] = called'.args[1]
               /\ reads'[1] >= last =>
                     samples'[set + 1][iteration + 1] = bucket_of(reads'[1] - last)
               /\ last' = reads'[2]
               /\ reads'[2] >= reads'[1] => last' >= reads'[1]
               /\ (called.op = "sample" /\ called.raised = "none"
                     /\ reads'[1] >= reads[2]) =>
                     samples'[set + 1][iteration + 1] = bucket_of(reads'[1] - reads[2])
      ]_vars

\* a sample() whose second reading is later than its first
C14_Witness ==
    /\ called = Call("sample", <<1>>, "none")
    /\ reads = <<1, 2097152>>
    /\ last = 2097152

\* the cell the sample for slot `taken` of sweep `sweeps` belongs in
WrapRow == taken + 1
WrapColumn == (sweeps % ITERATIONS) + 1

\* C15: under the sweep protocol, once ITERATIONS sweeps are complete, the
\* sample for slot s of sweep k overwrites exactly the cell [s][k mod N] that
\* sweep k - N wrote, without error and without changing the store's shape.
C15_WrapOverwrites ==
    [][ (called'.op = "sample" /\ sweeps >= ITERATIONS)
            => /\ called'.raised = "none"
               /\ set = taken
               /\ iteration = sweeps % ITERATIONS
               /\ samples[WrapRow][WrapColumn] # 255
               /\ samples'[WrapRow][WrapColumn] \in 0..21
               /\ Len(samples') = Len(samples)
               /\ \A r \in 1..Len(samples) :
                     /\ Len(samples'[r]) = Len(samples[r])
                     /\ \A c \in 1..Len(samples[r]) :
                           (r # WrapRow \/ c # WrapColumn)
                               => samples'[r][c] = samples[r][c] ]_vars

\* the second sample of the fourth sweep over a store of two iterations
C15_Witness ==
    /\ pc = "sample"
    /\ called.op = "sample"
    /\ SETS = 2
    /\ ITERATIONS = 2
    /\ sweeps = 3
    /\ taken = 2

\* C16: after a valid init, no reset/sample/advance/report call raises,
\* whatever the order of the calls and the number of samples per sweep.
C16_NoCallRejected ==
    (SETS >= 1 /\ ITERATIONS >= 1) => called.raised = "none"

\* a sample() into slot 0 made while slot 1 already holds a sample, the clock
\* having gone back from 1 to 0
C16_Witness ==
    /\ called = Call("sample", <<0>>, "none")
    /\ SETS = 2
    /\ ITERATIONS = 1
    /\ set = 1
    /\ samples = << <<1>>, <<21>> >>

\* C17: after a valid init, under any calls and any clock readings, the store
\* keeps SETS rows of ITERATIONS cells and every cell is in 0..21 or is 255.
C17_CellsAreBuckets ==
    (SETS >= 1 /\ ITERATIONS >= 1) =>
        /\ Len(samples) = SETS
        /\ \A r \in 1..SETS :
              /\ Len(samples[r]) = ITERATIONS
              /\ \A c \in 1..ITERATIONS : samples[r][c] \in (0..21) \cup {255}

\* a sample() that read 0 after the timer stood at 2097152: the clock went
\* back and the overflow bucket was written
C17_Witness ==
    /\ called = Call("sample", <<0>>, "none")
    /\ SETS = 1
    /\ ITERATIONS = 2
    /\ samples[1][iteration + 1] = 21
    /\ 255 \in {samples[1][c] : c \in 1..2}

ValidConfig == SETS >= 1 /\ ITERATIONS >= 1

\* C18: after a valid init both cursors stay in range; set changes only by
\* +1 mod SETS in sample() and to 0 in advance() and init(), which always
\* leave it 0; iteration changes only in advance() and init().
C18_CursorsInRange ==
    [][ /\ (SETS' >= 1 /\ ITERATIONS' >= 1) =>
              (set' \in 0..(SETS' - 1) /\ iteration' \in 0..(ITERATIONS' - 1))
        /\ (ValidConfig /\ set' # set) =>
              \/ called'.op = "sample" /\ set' = (set + 1) % SETS
              \/ called'.op \in {"advance", "init"} /\ set' = 0
        /\ (ValidConfig /\ iteration' # iteration) => called'.op \in {"advance", "init"}
        /\ (ValidConfig /\ called'.op \in {"advance", "init"}) => set' = 0
      ]_vars

\* a sample() that moved the set cursor to the last of three slots
C18_Witness ==
    /\ called.op = "sample"
    /\ called.raised = "none"
    /\ SETS = 3
    /\ set = 2

\* C19: sample() changes at most the cell at the cursors, and no other cell,
\* nor iteration, SETS or ITERATIONS; reset() changes only last.
C19_SampleResetFrame ==
    [][ /\ called'.op = "sample" =>
              /\ UNCHANGED <<iteration, SETS, ITERATIONS>>
              /\ Len(samples') = Len(samples)
              /\ \A r \in 1..Len(samples) :
                    /\ Len(samples'[r]) = Len(samples[r])
                    /\ \A c \in 1..Len(samples[r]) :
                          (r # set + 1 \/ c # iteration + 1)
                              => samples'[r][c] = samples[r][c]
        /\ called'.op = "reset" =>
              UNCHANGED <<SETS, ITERATIONS, samples, set, iteration>>
      ]_vars

\* a sample() into the second of three slots, the others keeping their cells
C19_Witness ==
    /\ called = Call("sample", <<2097152>>, "none")
    /\ samples = << <<0>>, <<21>>, <<255>> >>
    /\ set = 2

\* C20: under the sweep protocol with a clock that never goes back, after k
\* completed sweeps, k <= ITERATIONS, the written cells are exactly those of
\* the columns i < k; and the m-th sample() of a sweep lands in slot m.
C20_SweepsFillColumns ==
    (monotone /\ pc \in {"reset", "sample"} /\ sweeps <= ITERATIONS) =>
        /\ pc = "reset" =>
              \A r \in 1..SETS : \A c \in 1..ITERATIONS :
                  (samples[r][c] # 255) <=> (c <= sweeps)
        /\ (pc = "sample" /\ sweeps < ITERATIONS) =>
              /\ taken < SETS => set = taken
              /\ iteration = sweeps
              /\ \A r \in 1..SETS : \A c \in 1..ITERATIONS :
                    (samples[r][c] # 255) <=>
                        (c <= sweeps \/ (c = sweeps + 1 /\ r <= taken))

\* two of two sweeps over two slots done, the clock having moved on
C20_Witness ==
    /\ monotone
    /\ pc = "reset"
    /\ SETS = 2
    /\ ITERATIONS = 2
    /\ sweeps = 2
    /\ last = 2000
    /\ \A r \in 1..2 : \A c \in 1..2 : samples[r][c] # 255

\* one more sweep half done: the first sample has landed in slot 0 only
C20_WitnessMidSweep ==
    /\ monotone
    /\ pc = "sample"
    /\ SETS = 2
    /\ ITERATIONS = 2
    /\ sweeps = 1
    /\ taken = 1
    /\ samples[1][2] # 255
    /\ samples[2][2] = 255

====
